---- MODULE Spec2Model ----
(***************************************************************************)
(* A model of the sprite-sheet tools: the frame editor                     *)
(* (tools/sprite-tools/editor/sprite_frame_editor.py), the sheet combiner  *)
(* (tools/sprite-tools/spritesheet-combiner/spritesheet_combiner.py) and   *)
(* the layout sidecar they exchange.                                        *)
(*                                                                          *)
(* Python lists are 0-based; the sequences below are 1-based, so the       *)
(* element at Python position i is seq[i + 1].                             *)
(***************************************************************************)
EXTENDS Integers, Sequences, FiniteSets, TLC

(***************************************************************************)
(* Bounds of the model.                                                     *)
(***************************************************************************)
\* largest value entered for a grid dimension (the spinboxes allow 1..32)
MaxGrid == 2
\* largest number of cells cols*rows of a grid the model extracts
MaxFrames == 3

(***************************************************************************)
(* Images.  An image is [mode, w, h, px]: px lists the pixels row by row.  *)
(* An RGBA pixel is <<colour, alpha>>, a pixel without alpha is <<colour>>.*)
(***************************************************************************)
Pixel(mode, c, a) == IF mode = "RGBA" THEN <<c, a>> ELSE <<c>>

\* the pixel at (x, y), 0-based
PixelAt(img, x, y) == img.px[y * img.w + x + 1]

\* Image.new('RGBA', size, (0, 0, 0, 0))
Image_new(w, h) ==
  [mode |-> "RGBA", w |-> w, h |-> h, px |-> [i \in 1..(w * h) |-> <<0, 0>>]]

\* Image.crop((left, top, right, bottom)); the box lies inside the image
Image_crop(img, left, top, right, bottom) ==
  LET cw == right - left
      ch == bottom - top
  IN [mode |-> img.mode, w |-> cw, h |-> ch,
      px |-> [i \in 1..(cw * ch) |->
                PixelAt(img, left + ((i - 1) % cw), top + ((i - 1) \div cw))]]

\* the conversion paste() applies to a pixel pasted into an RGBA image
ToRGBA(p) == IF Len(p) = 1 THEN <<p[1], 255>> ELSE p

\* Image.paste(src, (x, y)) into an RGBA image, without a mask: the pixels
\* of src replace those of dst, clipped to dst
Image_paste(dst, src, x, y) ==
  [dst EXCEPT !.px =
     [i \in 1..(dst.w * dst.h) |->
        LET dx == (i - 1) % dst.w
            dy == (i - 1) \div dst.w
        IN IF /\ dx >= x /\ dx < x + src.w
              /\ dy >= y /\ dy < y + src.h
           THEN ToRGBA(PixelAt(src, dx - x, dy - y))
           ELSE dst.px[i]]]

\* self.spritesheet = None
NoSheet == [mode |-> "none", w |-> 0, h |-> 0, px |-> <<>>]

(***************************************************************************)
(* The sheets a user can open.  Colours are distinct per pixel, so that a  *)
(* misplaced pixel shows.                                                   *)
(***************************************************************************)
\* RGBA, 4 x 2: column 1 is transparent (alpha 0 and alpha 10), pixel (3,1)
\* has alpha 11
SheetA ==
  [mode |-> "RGBA", w |-> 4, h |-> 2,
   px |-> [i \in 1..8 |->
             Pixel("RGBA", i,
                   IF i = 2 THEN 0 ELSE IF i = 6 THEN 10
                   ELSE IF i = 8 THEN 11 ELSE 255)]]

\* no alpha channel, 2 x 2
SheetB ==
  [mode |-> "RGB", w |-> 2, h |-> 2,
   px |-> [i \in 1..4 |-> Pixel("RGB", i, 255)]]

Sheets == {SheetA, SheetB}

(***************************************************************************)
(* FrameObject                                                              *)
(***************************************************************************)
\* Python's a / b < 0.01 for integers a >= 0, b > 0
LessThanOnePercent(count, total_pixels) ==
  100 * count < total_pixels

\* sum(1 for pixel in pixels if pixel[3] > 10)
non_transparent(image) ==
  Cardinality({i \in 1..Len(image.px) : image.px[i][2] > 10})

\* determine_if_empty raises ZeroDivisionError on an RGBA image of no pixels
determine_if_empty_raises(image) ==
  image.mode = "RGBA" /\ Len(image.px) = 0

determine_if_empty(image) ==
  IF image.mode # "RGBA" THEN FALSE
  ELSE LessThanOnePercent(non_transparent(image), Len(image.px))

FrameObject(image, grid_x, grid_y, original_index) ==
  [image |-> image, grid_x |-> grid_x, grid_y |-> grid_y,
   original_index |-> original_index,
   is_empty |-> determine_if_empty(image), selected |-> FALSE]

(***************************************************************************)
(* SpriteFrameEditor.extract_frames                                         *)
(***************************************************************************)
\* Python's a // b, b # 0
FloorDiv(a, b) ==
  IF b > 0 THEN a \div b ELSE (0 - a) \div (0 - b)

\* the inner loop: for col in range(grid_cols), from col on
RECURSIVE ExtractCols(_, _, _, _, _, _, _)
ExtractCols(sheet, cols, frame_width, frame_height, row, col, acc) ==
  IF col >= cols THEN acc
  ELSE LET left == col * frame_width
           top == row * frame_height
           frame_img == Image_crop(sheet, left, top,
                                   left + frame_width, top + frame_height)
       IN ExtractCols(sheet, cols, frame_width, frame_height, row, col + 1,
                      Append(acc, FrameObject(frame_img, col, row, Len(acc))))

\* the outer loop: for row in range(grid_rows), from row on
RECURSIVE ExtractRows(_, _, _, _, _, _, _)
ExtractRows(sheet, cols, rows, frame_width, frame_height, row, acc) ==
  IF row >= rows THEN acc
  ELSE ExtractRows(sheet, cols, rows, frame_width, frame_height, row + 1,
                   ExtractCols(sheet, cols, frame_width, frame_height,
                               row, 0, acc))

\* extract_frames raises: the division by a zero grid dimension, or the
\* first FrameObject built from a frame of no pixels
extract_raises(sheet, cols, rows) ==
  \/ cols = 0
  \/ rows = 0
  \/ /\ cols > 0 /\ rows > 0
     /\ sheet.mode = "RGBA"
     /\ FloorDiv(sheet.w, cols) * FloorDiv(sheet.h, rows) = 0

\* self.frames after extract_frames ran on a sheet with this grid; the list
\* is emptied first, and every frame has the same size, so a raise happens
\* before the first append
extract_frames(sheet, cols, rows) ==
  IF extract_raises(sheet, cols, rows) THEN <<>>
  ELSE ExtractRows(sheet, cols, rows,
                   FloorDiv(sheet.w, cols), FloorDiv(sheet.h, rows), 0, <<>>)

(***************************************************************************)
(* Text.  A Python string is a sequence of tokens: " " is one blank, the   *)
(* punctuation marks "[", "]", "=", ":", "#", "-", "+" and the digits are  *)
(* one token each, and a word (letters, "_") is one token.  A text file is *)
(* a sequence of lines without their newline.                              *)
(***************************************************************************)
Digits == <<"0", "1", "2", "3", "4", "5", "6", "7", "8", "9">>

DigitSet == {"0", "1", "2", "3", "4", "5", "6", "7", "8", "9"}

IsDigit(t) == t \in DigitSet

DigitVal(t) == (CHOOSE d \in 1..10 : Digits[d] = t) - 1

RECURSIVE NatToStr(_)
NatToStr(n) ==
  IF n < 10 THEN <<Digits[n + 1]>>
  ELSE Append(NatToStr(n \div 10), Digits[(n % 10) + 1])

\* str(n), and the {n} of an f-string
str(n) == IF n < 0 THEN <<"-">> \o NatToStr(0 - n) ELSE NatToStr(n)

RECURSIVE lstrip(_)
lstrip(s) == IF s # <<>> /\ Head(s) = " " THEN lstrip(Tail(s)) ELSE s

RECURSIVE rstrip(_)
rstrip(s) ==
  IF s # <<>> /\ s[Len(s)] = " " THEN rstrip(SubSeq(s, 1, Len(s) - 1)) ELSE s

strip(s) == rstrip(lstrip(s))

startswith(s, prefix) ==
  Len(s) >= Len(prefix) /\ SubSeq(s, 1, Len(prefix)) = prefix

endswith(s, suffix) ==
  Len(s) >= Len(suffix) /\ SubSeq(s, Len(s) - Len(suffix) + 1, Len(s)) = suffix

\* tok in s
contains(s, tok) == \E i \in 1..Len(s) : s[i] = tok

\* s.split(tok, 1) of a string that contains tok
split1(s, tok) ==
  LET at == CHOOSE i \in 1..Len(s) :
              s[i] = tok /\ \A j \in 1..(i - 1) : s[j] # tok
  IN <<SubSeq(s, 1, at - 1), SubSeq(s, at + 1, Len(s))>>

\* the digits of int()'s argument, after blanks and a sign are taken off
IntBody(s) ==
  LET t == strip(s)
  IN IF t # <<>> /\ t[1] \in {"-", "+"} THEN Tail(t) ELSE t

\* int(s) raises ValueError
int_raises(s) ==
  LET body == IntBody(s)
  IN body = <<>> \/ \E i \in 1..Len(body) : ~IsDigit(body[i])

RECURSIVE DigitsToNat(_)
DigitsToNat(ds) ==
  IF ds = <<>> THEN 0
  ELSE 10 * DigitsToNat(SubSeq(ds, 1, Len(ds) - 1)) + DigitVal(ds[Len(ds)])

\* int(s) of a string on which it does not raise
int(s) ==
  IF strip(s)[1] = "-" THEN 0 - DigitsToNat(IntBody(s))
  ELSE DigitsToNat(IntBody(s))

(***************************************************************************)
(* SpriteFrameEditor.load_layout_config: the sidecar read into a dict of   *)
(* sections.  A dict is the sequence of its entries in insertion order.    *)
(***************************************************************************)
\* key in d
dict_has(d, key) == \E i \in 1..Len(d) : d[i].key = key

\* d[key] of a dict that has the key
dict_get(d, key) == d[CHOOSE i \in 1..Len(d) : d[i].key = key].value

\* d[key] = value
dict_set(d, key, value) ==
  IF dict_has(d, key)
  THEN [i \in 1..Len(d) |->
          IF d[i].key = key THEN [key |-> key, value |-> value] ELSE d[i]]
  ELSE Append(d, [key |-> key, value |-> value])

\* the loop over the lines of the file; current_section = <<>> stands for
\* None and for the empty string, which the loop treats alike
RECURSIVE read_sections(_, _, _, _)
read_sections(lines, n, config, current_section) ==
  IF n > Len(lines) THEN config
  ELSE LET line == strip(lines[n])
       IN IF line = <<>> \/ startswith(line, <<"#">>)
          THEN read_sections(lines, n + 1, config, current_section)
          ELSE IF startswith(line, <<"[">>) /\ endswith(line, <<"]">>)
          THEN LET section == SubSeq(line, 2, Len(line) - 1)
               IN read_sections(lines, n + 1,
                                dict_set(config, section, <<>>), section)
          ELSE IF contains(line, "=") /\ current_section # <<>>
          THEN LET kv == split1(line, "=")
               IN read_sections(lines, n + 1,
                    dict_set(config, current_section,
                             dict_set(dict_get(config, current_section),
                                      strip(kv[1]), strip(kv[2]))),
                    current_section)
          ELSE read_sections(lines, n + 1, config, current_section)

(***************************************************************************)
(* SpriteFrameEditor.parse_animation_data_section                           *)
(***************************************************************************)
AnimKeys == {<<"start_frame">>, <<"frame_count">>, <<"end_frame">>}

\* a dict of one animation: current_data with 'name' set
with_name(current_data, current_anim) ==
  dict_set(current_data, <<"name">>, current_anim)

\* the loop over the lines; st = [in_animation_data, current_anim,
\* current_data, animation_info, raised]; current_anim = <<>> stands for None
RECURSIVE parse_lines(_, _, _)
parse_lines(lines, n, st) ==
  IF n > Len(lines) \/ st.raised THEN st
  ELSE LET line == strip(lines[n])
           flushed == IF st.current_anim # <<>>
                      THEN Append(st.animation_info,
                                  with_name(st.current_data, st.current_anim))
                      ELSE st.animation_info
       IN IF startswith(line, <<"[", "animation_data", "]">>)
          THEN parse_lines(lines, n + 1, [st EXCEPT !.in_animation_data = TRUE])
          ELSE IF startswith(line, <<"[">>) /\ endswith(line, <<"]">>)
          THEN parse_lines(lines, n + 1,
                 [st EXCEPT !.animation_info = flushed,
                            !.current_anim = <<>>,
                            !.current_data =
                               IF st.current_anim # <<>> THEN <<>> ELSE @,
                            !.in_animation_data =
                               IF line # <<"[", "animation_data", "]">>
                               THEN FALSE ELSE @])
          ELSE IF ~st.in_animation_data \/ line = <<>>
          THEN parse_lines(lines, n + 1, st)
          ELSE IF endswith(line, <<":">>) /\ ~startswith(line, <<" ", " ">>)
          THEN parse_lines(lines, n + 1,
                 [st EXCEPT !.animation_info = flushed,
                            !.current_anim = SubSeq(line, 1, Len(line) - 1),
                            !.current_data = <<>>])
          ELSE IF startswith(line, <<" ", " ">>) /\ st.current_anim # <<>>
          THEN IF contains(line, ":")
               THEN LET kv == split1(line, ":")
                        key == strip(kv[1])
                        value == strip(kv[2])
                    IN IF key \in AnimKeys
                       THEN IF int_raises(value)
                            THEN [st EXCEPT !.raised = TRUE]
                            ELSE parse_lines(lines, n + 1,
                                   [st EXCEPT !.current_data =
                                      dict_set(@, key, int(value))])
                       ELSE parse_lines(lines, n + 1, st)
               ELSE parse_lines(lines, n + 1, st)
          ELSE parse_lines(lines, n + 1, st)

\* the list the method returns: after a raise, the animations appended so far
parse_animation_data_section(lines) ==
  LET st == parse_lines(lines, 1,
              [in_animation_data |-> FALSE, current_anim |-> <<>>,
               current_data |-> <<>>, animation_info |-> <<>>,
               raised |-> FALSE])
  IN IF ~st.raised /\ st.current_anim # <<>>
     THEN Append(st.animation_info, with_name(st.current_data, st.current_anim))
     ELSE st.animation_info

(***************************************************************************)
(* SpriteFrameEditor.load_layout_config: the configuration applied.        *)
(* s = [layout_mode, grid_cols, grid_rows, animation_info] are the fields  *)
(* before the call; the result adds ok, the value returned.  A raise       *)
(* keeps what was assigned before it.                                       *)
(***************************************************************************)
\* layout_config.get(key, default)
get_or(d, key, default) == IF dict_has(d, key) THEN dict_get(d, key) ELSE default

\* the loop over config['animations'].items(), from entry n on; a raise of
\* int(frame_count) ends it with the entries appended so far
RECURSIVE legacy_animations(_, _, _)
legacy_animations(items, n, acc) ==
  IF n > Len(items) THEN [raised |-> FALSE, animation_info |-> acc]
  ELSE IF int_raises(items[n].value)
  THEN [raised |-> TRUE, animation_info |-> acc]
  ELSE legacy_animations(items, n + 1,
         Append(acc, <<[key |-> <<"name">>, value |-> items[n].key],
                      [key |-> <<"frame_count">>, value |-> int(items[n].value)],
                      [key |-> <<"start_frame">>, value |-> 0]>>))

\* the start frames summed up, from animation n on
RECURSIVE running_start_frames(_, _, _)
running_start_frames(animation_info, n, current_frame) ==
  IF n > Len(animation_info) THEN animation_info
  ELSE running_start_frames(
         [animation_info EXCEPT
            ![n] = dict_set(@, <<"start_frame">>, current_frame)],
         n + 1, current_frame + dict_get(animation_info[n], <<"frame_count">>))

\* lines 716-740: the animation info stored
load_animation_info(lines, config, s) ==
  IF dict_has(config, <<"animation_data">>)
  THEN [s EXCEPT !.animation_info = parse_animation_data_section(lines)]
  ELSE IF dict_has(config, <<"animations">>)
  THEN LET got == legacy_animations(dict_get(config, <<"animations">>), 1, <<>>)
       IN IF got.raised
          THEN [s EXCEPT !.animation_info = got.animation_info, !.ok = FALSE]
          ELSE IF dict_has(config, <<"frame_mapping">>)
          THEN [s EXCEPT !.animation_info =
                  running_start_frames(got.animation_info, 1, 0)]
          ELSE [s EXCEPT !.animation_info = got.animation_info]
  ELSE s

\* lines 698-714: the [layout] section applied
load_layout_section(config, s) ==
  IF ~dict_has(config, <<"layout">>) THEN s
  ELSE LET layout_config == dict_get(config, <<"layout">>)
           s1 == [s EXCEPT !.layout_mode =
                    get_or(layout_config, <<"mode">>, <<"horizontal">>)]
           cols == get_or(layout_config, <<"grid_cols">>, <<"4">>)
           rows == get_or(layout_config, <<"grid_rows">>, <<"4">>)
       IN IF int_raises(cols) THEN [s1 EXCEPT !.ok = FALSE]
          ELSE IF int_raises(rows)
          THEN [s1 EXCEPT !.grid_cols = int(cols), !.ok = FALSE]
          ELSE [s1 EXCEPT !.grid_cols = int(cols), !.grid_rows = int(rows)]

load_layout_config(lines, s) ==
  LET config == read_sections(lines, 1, <<>>, <<>>)
      s0 == [layout_mode |-> s.layout_mode, grid_cols |-> s.grid_cols,
             grid_rows |-> s.grid_rows, animation_info |-> s.animation_info,
             ok |-> TRUE]
      s1 == load_layout_section(config, s0)
  IN IF ~s1.ok THEN s1 ELSE load_animation_info(lines, config, s1)

(***************************************************************************)
(* Writing the sidecar.                                                     *)
(***************************************************************************)
\* sorted(S) of a set of integers
RECURSIVE sorted(_)
sorted(S) ==
  IF S = {} THEN <<>>
  ELSE LET m == CHOOSE x \in S : \A y \in S : x <= y
       IN <<m>> \o sorted(S \ {m})

\* max([...]) of a non-empty list of integers
max(xs) == CHOOSE m \in {xs[i] : i \in 1..Len(xs)} :
             \A i \in 1..Len(xs) : xs[i] <= m

frame_counts(animation_info) ==
  [i \in 1..Len(animation_info) |-> animation_info[i].frame_count]

\* f"{key} = {value}"
KeyEquals(key, value) == <<key, " ", "=", " ">> \o value

\* f"  {key}: {value}"
IndentedField(key, value) == <<" ", " ", key, ":", " ">> \o value

\* the [layout] section both tools write
layout_lines(mode, target_size, grid_cols, grid_rows) ==
  << <<"[", "layout", "]">>,
     KeyEquals("mode", mode),
     KeyEquals("target_size", str(target_size)),
     KeyEquals("grid_cols", str(grid_cols)),
     KeyEquals("grid_rows", str(grid_rows)),
     <<>> >>

\* the [animations] section both tools write
RECURSIVE animations_lines(_, _)
animations_lines(animation_info, n) ==
  IF n > Len(animation_info) THEN << <<>> >>
  ELSE << animation_info[n].name \o <<" ", "=", " ">>
            \o str(animation_info[n].frame_count) >>
       \o animations_lines(animation_info, n + 1)

\* one block of [animation_data]
animation_block(name, start_frame, frame_count) ==
  << name \o <<":">>,
     IndentedField("start_frame", str(start_frame)),
     IndentedField("frame_count", str(frame_count)),
     IndentedField("end_frame", str(start_frame + frame_count - 1)),
     <<>> >>

(***************************************************************************)
(* EnhancedSpritesheetCombiner.save_layout_config                           *)
(***************************************************************************)
combiner_grid_cols(layout, animation_info) ==
  IF layout = <<"horizontal">> THEN max(frame_counts(animation_info))
  ELSE Len(animation_info)

combiner_grid_rows(layout, animation_info) ==
  IF layout = <<"horizontal">> THEN Len(animation_info)
  ELSE max(frame_counts(animation_info))

RECURSIVE combiner_animation_data(_, _)
combiner_animation_data(animation_info, n) ==
  IF n > Len(animation_info) THEN <<>>
  ELSE animation_block(animation_info[n].name, animation_info[n].start_frame,
                       animation_info[n].frame_count)
       \o combiner_animation_data(animation_info, n + 1)

RECURSIVE combiner_frame_mapping(_, _)
combiner_frame_mapping(animation_info, n) ==
  IF n > Len(animation_info) THEN <<>>
  ELSE << <<"#", " ">> \o animation_info[n].name \o <<":", " ", "frames", " ">>
            \o str(animation_info[n].start_frame) \o <<"-">>
            \o str(animation_info[n].start_frame
                   + animation_info[n].frame_count - 1) >>
       \o combiner_frame_mapping(animation_info, n + 1)

\* the lines written to the .layout file
combiner_save_layout_config(layout, target_size, animation_info) ==
  << <<"#", " ", "Comprehensive", " ", "Metadata", " ", "File">>,
     <<"#", " ", "Generated", " ", "by", " ", "Spritesheet", " ", "Combiner">>,
     <<>> >>
  \o layout_lines(layout, target_size,
                  combiner_grid_cols(layout, animation_info),
                  combiner_grid_rows(layout, animation_info))
  \o << <<"[", "animations", "]">> >>
  \o animations_lines(animation_info, 1)
  \o << <<"[", "animation_data", "]">> >>
  \o combiner_animation_data(animation_info, 1)
  \o << <<"[", "frame_mapping", "]">> >>
  \o combiner_frame_mapping(animation_info, 1)

(***************************************************************************)
(* SpriteFrameEditor.save_layout_config                                     *)
(***************************************************************************)
\* lines 821-829: the grid written, from the animation_info argument
editor_saved_grid_cols(layout_mode, animation_info) ==
  IF animation_info = <<>> THEN 1
  ELSE IF layout_mode = <<"horizontal">>
  THEN max(frame_counts(animation_info))
  ELSE Len(animation_info)

editor_saved_grid_rows(layout_mode, animation_info) ==
  IF animation_info = <<>> THEN 1
  ELSE IF layout_mode = <<"horizontal">>
  THEN Len(animation_info)
  ELSE max(frame_counts(animation_info))

\* the band coordinate of a frame: its row in horizontal mode, else its column
band_of(layout_mode, frame) ==
  IF layout_mode = <<"horizontal">> THEN frame.grid_y ELSE frame.grid_x

\* lines 844-872: the animation data recomputed from the frame positions
current_animation_info(layout_mode, frame_list) ==
  LET keys == sorted({band_of(layout_mode, frame_list[i]) :
                        i \in 1..Len(frame_list)})
      group(k) == {frame_list[i].original_index :
                     i \in {j \in 1..Len(frame_list) :
                              band_of(layout_mode, frame_list[j]) = k}}
      count(k) == Cardinality({j \in 1..Len(frame_list) :
                                 band_of(layout_mode, frame_list[j]) = k})
  IN [n \in 1..Len(keys) |->
        [name |-> <<(IF layout_mode = <<"horizontal">> THEN "Row" ELSE "Col"),
                    " ">> \o str(keys[n] + 1),
         start_frame |-> sorted(group(keys[n]))[1],
         frame_count |-> count(keys[n])]]

\* lines 880-887: the blocks, with start frames counted up from 0
RECURSIVE editor_animation_data(_, _, _)
editor_animation_data(animation_info, n, current_frame) ==
  IF n > Len(animation_info) THEN <<>>
  ELSE animation_block(animation_info[n].name, current_frame,
                       animation_info[n].frame_count)
       \o editor_animation_data(animation_info, n + 1,
                                current_frame + animation_info[n].frame_count)

\* the lines written to the .layout file
editor_save_layout_config(layout_mode, frame_list, target_size, animation_info) ==
  LET current == current_animation_info(layout_mode, frame_list)
  IN << <<"#", " ", "Sprite", " ", "Frame", " ", "Editor", " ", "Layout">>,
        <<"#", " ", "Auto", "-", "generated">>,
        <<>> >>
     \o layout_lines(layout_mode, target_size,
                     editor_saved_grid_cols(layout_mode, animation_info),
                     editor_saved_grid_rows(layout_mode, animation_info))
     \o (IF current # <<>>
         THEN << <<"[", "animations", "]">> >>
              \o animations_lines(current, 1)
              \o << <<"[", "animation_data", "]">> >>
              \o editor_animation_data(current, 1, 0)
         ELSE << <<"[", "notes", "]">>,
                 <<"#", " ", "Layout", " ", "configuration", " ", "saved">>,
                 <<"#", " ", "Mode", ":", " ">> \o layout_mode >>)

(***************************************************************************)
(* The frame editor's state.                                                *)
(*   spritesheet, frames, grid_cols, grid_rows, layout_mode,               *)
(*   animation_info: the fields of SpriteFrameEditor;                      *)
(*   canvas: the frame_<index> tags of the thumbnails drawn by the last    *)
(*   update_display;                                                        *)
(*   disk: the image and the sidecar written by save_spritesheet;          *)
(*   last_call: the handler that ran last, when it extracted, deleted,     *)
(*   cleaned up, compacted (or refused to) or saved; "-" after any other   *)
(*   handler.                                                               *)
(* The texts of the spinboxes, of the layout menu and of the dialogs are   *)
(* inputs of the handlers that read them: the user can retype them before  *)
(* any call.  A run is followed up to its first successful save: the files *)
(* on disk are then those of the session as it stands.                     *)
(***************************************************************************)
VARIABLES spritesheet, frames, grid_cols, grid_rows, layout_mode,
          animation_info, canvas, disk, last_call

\* the sheet combiner and the sidecar on its way to the editor (see
\* SpecCodec and SpecDecode):
\*   animations, target_size, combiner_layout: the fields of
\*   EnhancedSpritesheetCombiner, with the texts of the spinboxes read;
\*   bands: the animation_info of the last combine_spritesheets, or the
\*   bands a hand-written sidecar declares;
\*   combined: the size of the image the combiner saved;
\*   written: the lines of the .layout file on disk.
VARIABLES animations, target_size, combiner_layout, bands, combined, written

editor_vars == <<spritesheet, frames, grid_cols, grid_rows, layout_mode,
                 animation_info, canvas, disk, last_call>>

codec_vars ==
  <<animations, target_size, combiner_layout, bands, combined, written>>

\* the sheet analyzer (see SpecDetect):
\*   input_image: the size of the image analyze_spritesheet opened;
\*   detected_layouts: what detect_grid_layout returned for it.
VARIABLES input_image, detected_layouts

analyzer_vars == <<input_image, detected_layouts>>

vars == <<editor_vars, codec_vars, analyzer_vars>>

\* nothing saved yet
NoFile == [image |-> NoSheet, layout |-> <<>>]

\* the tags update_display draws: one per frame
update_display(frame_list) ==
  [i \in 1..Len(frame_list) |-> frame_list[i].original_index]

\* __init__
EditorInit ==
  /\ spritesheet = NoSheet
  /\ frames = <<>>
  /\ grid_cols = 4
  /\ grid_rows = 4
  /\ layout_mode = <<"horizontal">>
  /\ animation_info = <<>>
  /\ canvas = <<>>
  /\ disk = NoFile
  /\ last_call = "__init__"

\* the animations combine_spritesheets walks, in its order
AnimationNames ==
  <<"idle", "run", "front_attack", "back_attack", "dying">>

\* an entry of self.animations as __init__ sets it
NoFileSelected ==
  [file |-> FALSE, frames |-> 16, grid_cols |-> 4, grid_rows |-> 4]

\* no image saved
NoImage == [width |-> 0, height |-> 0]

\* EnhancedSpritesheetCombiner.__init__
CombinerInit ==
  /\ animations = [n \in 1..Len(AnimationNames) |-> NoFileSelected]
  /\ target_size = 128
  /\ combiner_layout = <<"horizontal">>

CodecIdle ==
  /\ CombinerInit
  /\ bands = <<>>
  /\ combined = NoImage
  /\ written = <<>>

\* SpritesheetAnalyzer.__init__: no file chosen, nothing analysed
AnalyzerIdle ==
  /\ input_image = NoImage
  /\ detected_layouts = <<>>

Init == EditorInit /\ CodecIdle /\ AnalyzerIdle

\* the session goes on: nothing was saved yet
Editing == disk = NoFile

(***************************************************************************)
(* Selection                                                                *)
(***************************************************************************)
clear_all_selected(frame_list) ==
  [i \in 1..Len(frame_list) |-> [frame_list[i] EXCEPT !.selected = FALSE]]

\* on_canvas_click on the thumbnail tagged frame_<frame_index>
click_frame(frame_list, frame_index, ctrl) ==
  LET cleared == IF ~ctrl /\ ~frame_list[frame_index + 1].selected
                 THEN clear_all_selected(frame_list)
                 ELSE frame_list
  IN [cleared EXCEPT ![frame_index + 1].selected = ~@]

\* a click on a thumbnail; frames[frame_index] raises IndexError past the end
on_canvas_click ==
  /\ Editing
  /\ \E t \in 1..Len(canvas), ctrl \in BOOLEAN :
       LET frame_index == canvas[t]
       IN IF frame_index < Len(frames)
          THEN /\ frames' = click_frame(frames, frame_index, ctrl)
               /\ canvas' = update_display(frames')
               /\ UNCHANGED <<spritesheet, grid_cols, grid_rows, layout_mode,
                              animation_info, disk, codec_vars, analyzer_vars>>
               /\ last_call' = "-"
          ELSE UNCHANGED vars

\* on_canvas_click on empty space without the control key, and the
\* Clear Selection menu entry
clear_selection ==
  /\ Editing
  /\ frames' = clear_all_selected(frames)
  /\ canvas' = update_display(frames')
  /\ last_call' = "-"
  /\ UNCHANGED <<spritesheet, grid_cols, grid_rows, layout_mode,
                 animation_info, disk, codec_vars, analyzer_vars>>

select_all ==
  /\ Editing
  /\ frames' = [i \in 1..Len(frames) |-> [frames[i] EXCEPT !.selected = TRUE]]
  /\ canvas' = update_display(frames')
  /\ last_call' = "-"
  /\ UNCHANGED <<spritesheet, grid_cols, grid_rows, layout_mode,
                 animation_info, disk, codec_vars, analyzer_vars>>

select_empty ==
  /\ Editing
  /\ frames' = [i \in 1..Len(frames) |->
                  [frames[i] EXCEPT !.selected = frames[i].is_empty]]
  /\ canvas' = update_display(frames')
  /\ last_call' = "-"
  /\ UNCHANGED <<spritesheet, grid_cols, grid_rows, layout_mode,
                 animation_info, disk, codec_vars, analyzer_vars>>

(***************************************************************************)
(* delete_selected, cleanup_empty_frames, compact_grid                      *)
(***************************************************************************)
\* a delete that forgets the emptiness flag
delete_frame_keeps_flag(frame) ==
  IF frame.selected
  THEN [frame EXCEPT !.image = Image_new(frame.image.w, frame.image.h),
                     !.selected = FALSE]
  ELSE frame

\* the loop body of delete_selected
delete_frame(frame) ==
  IF frame.selected
  THEN [frame EXCEPT !.image = Image_new(frame.image.w, frame.image.h),
                     !.is_empty = TRUE, !.selected = FALSE]
  ELSE frame

delete_selected ==
  /\ Editing
  /\ frames' = [i \in 1..Len(frames) |-> delete_frame(frames[i])]
  /\ canvas' = update_display(frames')
  /\ last_call' = "delete_selected"
  /\ UNCHANGED <<spritesheet, grid_cols, grid_rows, layout_mode,
                 animation_info, disk, codec_vars, analyzer_vars>>

\* a filter that drops the first empty frame only
RECURSIVE first_empty_removed(_)
first_empty_removed(frame_list) ==
  IF frame_list = <<>> THEN <<>>
  ELSE IF Head(frame_list).is_empty THEN Tail(frame_list)
  ELSE <<Head(frame_list)>> \o first_empty_removed(Tail(frame_list))

\* [frame for frame in frame_list if not frame.is_empty]
RECURSIVE non_empty_frames(_)
non_empty_frames(frame_list) ==
  IF frame_list = <<>> THEN <<>>
  ELSE (IF ~Head(frame_list).is_empty THEN <<Head(frame_list)>> ELSE <<>>)
       \o non_empty_frames(Tail(frame_list))

\* a renumbering that gives every frame the index 0
renumber_flat(frame_list) ==
  [i \in 1..Len(frame_list) |-> [frame_list[i] EXCEPT !.original_index = 0]]

\* lines 565-568: original_index renumbered by position
renumber(frame_list) ==
  [i \in 1..Len(frame_list) |-> [frame_list[i] EXCEPT !.original_index = i - 1]]

\* self.frames after the call: nothing happens without frames, or when no
\* frame is empty
cleanup_frames(frame_list) ==
  LET cleaned_frames == non_empty_frames(frame_list)
  IN IF frame_list = <<>> \/ Len(cleaned_frames) = Len(frame_list)
     THEN frame_list
     ELSE renumber(cleaned_frames)

cleanup_empty_frames ==
  /\ Editing
  /\ LET cleaned_frames == non_empty_frames(frames)
     IN IF frames = <<>> \/ Len(cleaned_frames) = Len(frames)
        THEN UNCHANGED vars
        ELSE /\ frames' = cleanup_frames(frames)
             /\ canvas' = update_display(frames')
             /\ last_call' = "cleanup_empty_frames"
             /\ UNCHANGED <<spritesheet, grid_cols, grid_rows, layout_mode,
                            animation_info, disk, codec_vars, analyzer_vars>>

\* lines 579-585: the columns and the rows that hold a non-empty frame
active_cols(frame_list) ==
  {frame_list[i].grid_x : i \in {j \in 1..Len(frame_list) :
                                   ~frame_list[j].is_empty}}

active_rows(frame_list) ==
  {frame_list[i].grid_y : i \in {j \in 1..Len(frame_list) :
                                   ~frame_list[j].is_empty}}

\* a mapping that keeps the gaps
mapping_identity(active, old) == old

\* a mapping that sends every coordinate to 0
mapping_collapse(active, old) == 0

\* a mapping that numbers the columns from the right
mapping_reversed(active, old) ==
  Len(active) - (CHOOSE n \in 1..Len(active) : active[n] = old)

\* {old: new for new, old in enumerate(active)}[old], active sorted
mapping(active, old) ==
  (CHOOSE n \in 1..Len(active) : active[n] = old) - 1

\* lines 600-608: the non-empty frames, repositioned
compacted(frame_list) ==
  LET cols == sorted(active_cols(frame_list))
      rows == sorted(active_rows(frame_list))
      kept == non_empty_frames(frame_list)
  IN [i \in 1..Len(kept) |->
        [kept[i] EXCEPT !.grid_x = mapping(cols, kept[i].grid_x),
                        !.grid_y = mapping(rows, kept[i].grid_y)]]

\* compact_grid returns early without frames and shows an error when no
\* frame is left to keep
compact_fails(frame_list) ==
  frame_list = <<>> \/ active_cols(frame_list) = {} \/ active_rows(frame_list) = {}

\* without frames the call returns at once (lines 575-576); when no frame is
\* left to keep it shows the error "No frames to keep!" (lines 587-589)
compact_grid ==
  /\ Editing
  /\ IF compact_fails(frames)
     THEN /\ last_call' = IF frames = <<>> THEN "compact_grid:returned"
                          ELSE "compact_grid:error"
          /\ UNCHANGED <<spritesheet, frames, grid_cols, grid_rows,
                         layout_mode, animation_info, canvas, disk,
                         codec_vars, analyzer_vars>>
     ELSE /\ frames' = compacted(frames)
          /\ grid_cols' = Cardinality(active_cols(frames))
          /\ grid_rows' = Cardinality(active_rows(frames))
          /\ canvas' = update_display(frames')
          /\ last_call' = "compact_grid"
          /\ UNCHANGED <<spritesheet, layout_mode, animation_info, disk,
                         codec_vars, analyzer_vars>>

(***************************************************************************)
(* update_grid_config and on_layout_change                                  *)
(***************************************************************************)
\* what a spinbox shows after one of its arrows was clicked
ArrowTexts == {str(n) : n \in 1..MaxGrid}

\* what a spinbox can hold: a number, or a text typed into it
SpinTexts == ArrowTexts \cup {<<>>, <<"x">>, <<"0">>}

\* the command of both spinboxes: one was clicked, the other holds its text.
\* int() of the columns is assigned before int() of the rows is tried;
\* ValueError is swallowed, the ZeroDivisionError of extract_frames is not
update_grid_config ==
  /\ Editing
  /\ \E clicked \in {"cols", "rows"}, arrow \in ArrowTexts, other \in SpinTexts :
       LET cols_var == IF clicked = "cols" THEN arrow ELSE other
           rows_var == IF clicked = "rows" THEN arrow ELSE other
       IN IF int_raises(cols_var)
          THEN UNCHANGED vars
          ELSE IF int_raises(rows_var)
          THEN /\ grid_cols' = int(cols_var)
               /\ last_call' = "-"
               /\ UNCHANGED <<spritesheet, frames, grid_rows, layout_mode,
                              animation_info, canvas, disk, codec_vars, analyzer_vars>>
          ELSE /\ grid_cols' = int(cols_var)
               /\ grid_rows' = int(rows_var)
               /\ IF spritesheet = NoSheet
                  THEN /\ last_call' = "-"
                       /\ UNCHANGED <<frames, canvas>>
                  ELSE /\ \/ extract_raises(spritesheet, grid_cols', grid_rows')
                          \/ grid_cols' * grid_rows' <= MaxFrames
                       /\ frames' = extract_frames(spritesheet, grid_cols',
                                                   grid_rows')
                       /\ IF extract_raises(spritesheet, grid_cols', grid_rows')
                          THEN /\ last_call' = "extract_frames:raised"
                               /\ UNCHANGED canvas
                          ELSE /\ last_call' = "extract_frames"
                               /\ canvas' = update_display(frames')
               /\ UNCHANGED <<spritesheet, layout_mode, animation_info, disk,
                              codec_vars, analyzer_vars>>

\* the entries of the layout menu
LayoutOptions ==
  {<<"Horizontal", " ", "Strips">>, <<"Vertical", " ", "Strips">>}

on_layout_change ==
  /\ Editing
  /\ \E selection \in LayoutOptions :
       /\ layout_mode' = IF contains(selection, "Horizontal")
                         THEN <<"horizontal">> ELSE <<"vertical">>
       /\ canvas' = update_display(frames)
       /\ last_call' = "-"
       /\ UNCHANGED <<spritesheet, frames, grid_cols, grid_rows,
                      animation_info, disk, codec_vars, analyzer_vars>>

(***************************************************************************)
(* ask_for_layout_and_grid: the three dialogs of a load without a usable   *)
(* sidecar.  An answer is the text typed, <<>> for a dialog that was       *)
(* cancelled or left empty.                                                 *)
(***************************************************************************)
\* the largest grid dimension the dialogs accept
DialogMaxGrid == 32

lower_token(t) ==
  IF t = "Horizontal" THEN "horizontal"
  ELSE IF t = "Vertical" THEN "vertical"
  ELSE t

\* str.lower()
lower(s) == [i \in 1..Len(s) |-> lower_token(s[i])]

\* the try block of a grid dialog raises ValueError
dialog_rejects(answer) ==
  \/ int_raises(answer)
  \/ int(answer) < 1
  \/ int(answer) > DialogMaxGrid

ask_for_layout_and_grid(s, layout_choice, cols_result, rows_result) ==
  IF layout_choice = <<>> THEN s
  ELSE LET typed == strip(lower(layout_choice))
           s1 == [s EXCEPT !.layout_mode =
                    IF typed \in {<<"horizontal">>, <<"vertical">>}
                    THEN typed ELSE <<"horizontal">>]
       IN IF cols_result = <<>> \/ dialog_rejects(cols_result) THEN s1
          ELSE IF rows_result = <<>> \/ dialog_rejects(rows_result) THEN s1
          ELSE [s1 EXCEPT !.grid_cols = int(cols_result),
                          !.grid_rows = int(rows_result)]

\* the answers tried for the layout dialog and for a grid dialog
LayoutAnswers == {<<>>, <<"diagonal">>, <<" ", "Vertical">>}

GridAnswers == ArrowTexts \cup {<<>>, <<"x">>, <<"0">>, <<"3", "3">>}

\* the fields the dialogs can leave behind.  A dialog that is not opened
\* gets no answer: the later answers are <<>> after a cancel or a rejection
asked(s) ==
  {ask_for_layout_and_grid(s, <<>>, <<>>, <<>>)}
  \cup {ask_for_layout_and_grid(s, l, c, <<>>) :
          l \in LayoutAnswers \ {<<>>}, c \in {<<>>, <<"x">>, <<"0">>, <<"3", "3">>}}
  \cup {ask_for_layout_and_grid(s, l, c, r) :
          l \in LayoutAnswers \ {<<>>}, c \in ArrowTexts, r \in GridAnswers}

(***************************************************************************)
(* The .layout files found next to a sheet                                  *)
(***************************************************************************)
NoLayout == [exists |-> FALSE, lines |-> <<>>]

LayoutFile(lines) == [exists |-> TRUE, lines |-> lines]

\* a hand-written sidecar: vertical strips, 3 x 1
SidecarVertical ==
  LayoutFile(<< <<"#", " ", "layout">>,
                <<"[", "layout", "]">>,
                KeyEquals("mode", <<"vertical">>),
                <<" ">> \o KeyEquals("grid_cols", <<"3">>),
                KeyEquals("grid_rows", <<"1">>) >>)

\* a grid of no columns
SidecarZero ==
  LayoutFile(<< <<"[", "layout", "]">>,
                KeyEquals("grid_cols", <<"0">>),
                KeyEquals("grid_rows", <<"1">>) >>)

\* a negative grid
SidecarNegative ==
  LayoutFile(<< <<"[", "layout", "]">>,
                KeyEquals("grid_cols", <<"-", "1">>),
                KeyEquals("grid_rows", <<"2">>) >>)

\* the number of rows is not a number
SidecarBadRows ==
  LayoutFile(<< <<"[", "layout", "]">>,
                KeyEquals("mode", <<"vertical">>),
                KeyEquals("grid_cols", <<"3">>),
                KeyEquals("grid_rows", <<"x">>) >>)

Sidecars == {NoLayout, SidecarVertical, SidecarZero, SidecarNegative,
             SidecarBadRows}

\* the fields load_layout_config and the dialogs work on
layout_fields ==
  [layout_mode |-> layout_mode, grid_cols |-> grid_cols,
   grid_rows |-> grid_rows, animation_info |-> animation_info, ok |-> TRUE]

(***************************************************************************)
(* load_spritesheet                                                         *)
(***************************************************************************)
\* lines 238-259: the sheet is assigned first, then the fields the sidecar
\* or the dialogs left; an exception of extract_frames is caught and shown
load_extract(sheet, s) ==
  /\ spritesheet' = sheet
  /\ layout_mode' = s.layout_mode
  /\ grid_cols' = s.grid_cols
  /\ grid_rows' = s.grid_rows
  /\ animation_info' = s.animation_info
  /\ \/ extract_raises(sheet, s.grid_cols, s.grid_rows)
     \/ s.grid_cols * s.grid_rows <= MaxFrames
  /\ frames' = extract_frames(sheet, s.grid_cols, s.grid_rows)
  /\ IF extract_raises(sheet, s.grid_cols, s.grid_rows)
     THEN /\ last_call' = "extract_frames:raised"
          /\ UNCHANGED canvas
     ELSE /\ last_call' = "extract_frames"
          /\ canvas' = update_display(frames')
  /\ UNCHANGED <<disk, codec_vars, analyzer_vars>>

\* the file dialog is cancelled, or Image.open raises: nothing is assigned
load_unreadable == UNCHANGED vars

load_spritesheet ==
  /\ Editing
  /\ \/ load_unreadable
     \/ \E sidecar \in Sidecars :
          LET loaded == IF sidecar.exists
                        THEN load_layout_config(sidecar.lines, layout_fields)
                        ELSE [layout_fields EXCEPT !.ok = FALSE]
          IN \E s \in (IF loaded.ok THEN {loaded} ELSE asked(loaded)) :
               \E sheet \in Sheets : load_extract(sheet, s)

(***************************************************************************)
(* save_spritesheet                                                         *)
(***************************************************************************)
\* a paste loop that swaps the two axes
RECURSIVE paste_frames_transposed(_, _, _, _, _)
paste_frames_transposed(new_sheet, frame_list, n, frame_width, frame_height) ==
  IF n > Len(frame_list) THEN new_sheet
  ELSE paste_frames_transposed(
         Image_paste(new_sheet, frame_list[n].image,
                     frame_list[n].grid_y * frame_width,
                     frame_list[n].grid_x * frame_height),
         frame_list, n + 1, frame_width, frame_height)

\* the loop of lines 644-647, from frame n on
RECURSIVE paste_frames(_, _, _, _, _)
paste_frames(new_sheet, frame_list, n, frame_width, frame_height) ==
  IF n > Len(frame_list) THEN new_sheet
  ELSE paste_frames(Image_paste(new_sheet, frame_list[n].image,
                                frame_list[n].grid_x * frame_width,
                                frame_list[n].grid_y * frame_height),
                    frame_list, n + 1, frame_width, frame_height)

\* lines 636-647: the sheet composed from a non-empty frame list
compose_sheet(frame_list, cols, rows) ==
  LET frame_width == frame_list[1].image.w
      frame_height == frame_list[1].image.h
  IN paste_frames(Image_new(cols * frame_width, rows * frame_height),
                  frame_list, 1, frame_width, frame_height)

\* Image.new raises on a negative size and Image.save on an image of no
\* pixels
sheet_unwritable(frame_list, cols, rows) ==
  \/ cols * frame_list[1].image.w <= 0
  \/ rows * frame_list[1].image.h <= 0

\* nothing is written without frames, when the file dialog is cancelled and
\* when composing or writing the image raises; else the image is written
\* and then the sidecar, with an empty animation_info argument.
\* save_layout_config catches what open and write raise (a read-only
\* .layout file, a full disk) and returns as after a write: the sidecar
\* is then missing, and save_spritesheet goes on to set the status line
\* to "Saved: ... and layout config" all the same.
save_spritesheet ==
  /\ Editing
  /\ \/ UNCHANGED vars
     \/ /\ frames # <<>>
        /\ ~sheet_unwritable(frames, grid_cols, grid_rows)
        /\ \/ /\ disk' = [image |-> compose_sheet(frames, grid_cols,
                                                  grid_rows),
                          layout |-> editor_save_layout_config(
                                       layout_mode, frames,
                                       frames[1].image.w, <<>>)]
              /\ last_call' = "save_spritesheet"
           \/ /\ disk' = [image |-> compose_sheet(frames, grid_cols,
                                                  grid_rows),
                          layout |-> <<>>]
              /\ last_call' = "save_spritesheet:no_sidecar"
        /\ UNCHANGED <<spritesheet, frames, grid_cols, grid_rows, layout_mode,
                       animation_info, canvas, codec_vars, analyzer_vars>>

\* the outcomes of save_spritesheet that end with the status line
\* "Saved: ... and layout config"
ReportedSaved == {"save_spritesheet", "save_spritesheet:no_sidecar"}

Next ==
  \/ load_spritesheet
  \/ update_grid_config
  \/ on_layout_change
  \/ on_canvas_click
  \/ clear_selection
  \/ select_all
  \/ select_empty
  \/ delete_selected
  \/ cleanup_empty_frames
  \/ compact_grid
  \/ save_spritesheet

Spec == Init /\ [][Next]_vars

(***************************************************************************)
(* EnhancedSpritesheetCombiner.combine_spritesheets.  A frame of the       *)
(* combiner is a square of target_size pixels; the model keeps the number  *)
(* of frames and the size of the sheet.                                     *)
(***************************************************************************)
\* the most frames asked of one animation
MaxBandFrames == 6

\* the animations of the form that can be given a file: the first ones
MaxAnimations == 2

\* the values of the target size buttons
TargetSizes == {64, 128, 256}

\* the inner loop of extract_frames_explicit, from col on: the number of
\* frames extracted so far
RECURSIVE explicit_cols(_, _, _, _)
explicit_cols(frame_count, cols, col, frames_extracted) ==
  IF col >= cols \/ frames_extracted >= frame_count
  THEN frames_extracted
  ELSE explicit_cols(frame_count, cols, col + 1, frames_extracted + 1)

\* the outer loop, from row on
RECURSIVE explicit_rows(_, _, _, _, _)
explicit_rows(frame_count, cols, rows, row, frames_extracted) ==
  IF row >= rows THEN frames_extracted
  ELSE LET after == explicit_cols(frame_count, cols, 0, frames_extracted)
       IN IF after >= frame_count THEN after
          ELSE explicit_rows(frame_count, cols, rows, row + 1, after)

\* len(extract_frames_explicit(...)) on a sheet that holds the grid
extract_frames_explicit(frame_count, cols, rows) ==
  explicit_rows(frame_count, cols, rows, 0, 0)

\* width // cols or height // rows divides by zero
explicit_raises(anim_data) ==
  anim_data.grid_cols = 0 \/ anim_data.grid_rows = 0

\* a loop that starts every animation at frame 0
RECURSIVE combine_without_offsets(_, _, _, _)
combine_without_offsets(anims, n, all_frames, acc) ==
  IF n > Len(AnimationNames) THEN acc
  ELSE IF ~anims[n].file
  THEN combine_without_offsets(anims, n + 1, all_frames, acc)
  ELSE combine_without_offsets(anims, n + 1, all_frames,
         Append(acc, [name |-> <<AnimationNames[n]>>,
                      start_frame |-> all_frames,
                      frame_count |->
                        extract_frames_explicit(anims[n].frames,
                                                anims[n].grid_cols,
                                                anims[n].grid_rows)]))

\* lines 208-227: the loop over the animations from n on; all_frames is
\* len(all_frames)
RECURSIVE combine_animation_info(_, _, _, _)
combine_animation_info(anims, n, all_frames, acc) ==
  IF n > Len(AnimationNames) THEN acc
  ELSE IF ~anims[n].file
  THEN combine_animation_info(anims, n + 1, all_frames, acc)
  ELSE LET count == extract_frames_explicit(anims[n].frames,
                                            anims[n].grid_cols,
                                            anims[n].grid_rows)
       IN combine_animation_info(anims, n + 1, all_frames + count,
            Append(acc, [name |-> <<AnimationNames[n]>>,
                         start_frame |-> all_frames,
                         frame_count |-> count]))

\* the size of the sheet create_horizontal_sheet returns: one column per
\* animation
create_horizontal_sheet(size, info) ==
  [width |-> Len(info) * size,
   height |-> max(frame_counts(info)) * size]

\* the size of the sheet create_vertical_sheet returns: one row per
\* animation
create_vertical_sheet(size, info) ==
  [width |-> max(frame_counts(info)) * size,
   height |-> Len(info) * size]

\* a choice of sheet that follows the names of the two methods
combined_sheet_by_name(layout, size, info) ==
  IF layout = <<"horizontal">>
  THEN create_horizontal_sheet(size, info)
  ELSE create_vertical_sheet(size, info)

\* lines 230-233
combined_sheet(layout, size, info) ==
  IF layout = <<"horizontal">>
  THEN create_vertical_sheet(size, info)
  ELSE create_horizontal_sheet(size, info)

\* The pixels of the combined sheet, one pixel for each square of
\* target_size x target_size pixels: every frame is resized to that square
\* and pasted at a multiple of target_size, and a grid that cuts the sheet
\* along the squares cuts this image along its pixels.
\* all_frames[k], with a colour of its own
FrameCell(k) ==
  [mode |-> "RGBA", w |-> 1, h |-> 1, px |-> <<Pixel("RGBA", k + 1, 255)>>]

\* for i in range(count): combined.paste(frames[start + i], ...), from i
\* on; across is TRUE for create_vertical_sheet, which pastes at (i,
\* current_row), FALSE for create_horizontal_sheet, which pastes at
\* (current_col, i)
RECURSIVE paste_band(_, _, _, _, _)
paste_band(sheet, anim, i, current, across) ==
  IF i >= anim.frame_count
    THEN sheet
    ELSE paste_band(
           Image_paste(sheet, FrameCell(anim.start_frame + i),
                       IF across THEN i ELSE current,
                       IF across THEN current ELSE i),
           anim, i + 1, current, across)

\* for anim in animation_info, from band n on
RECURSIVE paste_bands(_, _, _, _)
paste_bands(sheet, info, n, across) ==
  IF n > Len(info)
    THEN sheet
    ELSE paste_bands(paste_band(sheet, info[n], 0, n - 1, across),
                     info, n + 1, across)

\* the image create_horizontal_sheet returns: one column per animation
horizontal_sheet_cells(info) ==
  paste_bands(Image_new(Len(info), max(frame_counts(info))), info, 1, FALSE)

\* the image create_vertical_sheet returns: one row per animation
vertical_sheet_cells(info) ==
  paste_bands(Image_new(max(frame_counts(info)), Len(info)), info, 1, TRUE)

\* lines 230-233, the image
combined_cells(layout, info) ==
  IF layout = <<"horizontal">>
  THEN vertical_sheet_cells(info)
  ELSE horizontal_sheet_cells(info)

\* what the form can hold for an animation with a file: a number of frames
\* on the default grid, more frames than a 2 x 1 grid holds, a grid of no
\* columns
FormRows ==
  {[file |-> TRUE, frames |-> f, grid_cols |-> 4, grid_rows |-> 4] :
     f \in 0..MaxBandFrames}
  \cup {[file |-> TRUE, frames |-> MaxBandFrames, grid_cols |-> 2,
         grid_rows |-> 1],
        [file |-> TRUE, frames |-> 1, grid_cols |-> 0, grid_rows |-> 1]}

\* the forms the user can have filled in
Forms ==
  {anims \in [1..Len(AnimationNames) -> FormRows \cup {NoFileSelected}] :
     \A n \in 1..Len(AnimationNames) :
       n > MaxAnimations => anims[n] = NoFileSelected}

CodecInit ==
  /\ EditorInit
  /\ AnalyzerIdle
  /\ animations \in Forms
  /\ target_size \in TargetSizes
  /\ combiner_layout \in {<<"horizontal">>, <<"vertical">>}
  /\ bands = <<>>
  /\ combined = NoImage
  /\ written = <<>>

\* nothing is written without a selected file, when extract_frames_explicit
\* raises, when the sheet has no pixels (Image.save raises) and when the
\* file dialog is cancelled; else the image is saved and then the sidecar.
\* A run is followed up to its first successful combine.
combine_spritesheets ==
  /\ written = <<>>
  /\ \/ UNCHANGED vars
     \/ LET info == combine_animation_info(animations, 1, 0, <<>>)
        IN /\ \E n \in 1..Len(AnimationNames) : animations[n].file
           /\ \A n \in 1..Len(AnimationNames) :
                animations[n].file => ~explicit_raises(animations[n])
           /\ max(frame_counts(info)) >= 1
           /\ bands' = info
           /\ combined' = combined_sheet(combiner_layout, target_size, info)
           /\ written' = combiner_save_layout_config(
                           combiner_layout, target_size, info)
           /\ UNCHANGED <<animations, target_size, combiner_layout,
                          editor_vars, analyzer_vars>>

\* what load_layout_config leaves in last_call: it returned True or False
LoadOutcomes == {"load_layout_config", "load_layout_config:failed"}

\* the editor reads the sidecar on disk
editor_load_layout ==
  /\ written # <<>>
  /\ last_call \notin LoadOutcomes
  /\ LET loaded == load_layout_config(written, layout_fields)
     IN /\ layout_mode' = loaded.layout_mode
        /\ grid_cols' = loaded.grid_cols
        /\ grid_rows' = loaded.grid_rows
        /\ animation_info' = loaded.animation_info
        /\ last_call' = IF loaded.ok THEN "load_layout_config"
                        ELSE "load_layout_config:failed"
  /\ UNCHANGED <<spritesheet, frames, canvas, disk, codec_vars, analyzer_vars>>

CodecNext == combine_spritesheets \/ editor_load_layout

SpecCodec == CodecInit /\ [][CodecNext]_vars

(***************************************************************************)
(* A sidecar written by hand, read by the editor: a [layout] section with  *)
(* or without its mode and grid lines, the legacy [animations] section     *)
(* and, or not, a [frame_mapping] section.                                  *)
(***************************************************************************)
\* the names a hand-written sidecar gives its bands
DeclaredNames == {<<"walk">>, <<"jump">>}

\* the bands declared: none, one or two, each with its frame count and the
\* start frame the declaration order gives it
DeclaredBandLists ==
  {<<>>}
  \cup {<<[name |-> a, start_frame |-> 0, frame_count |-> c]>> :
          a \in DeclaredNames, c \in 1..MaxBandFrames}
  \cup UNION {{<<[name |-> a, start_frame |-> 0, frame_count |-> c],
                 [name |-> b, start_frame |-> c, frame_count |-> d]>> :
                 b \in DeclaredNames \ {a},
                 c \in 1..MaxBandFrames, d \in 1..MaxBandFrames} :
              a \in DeclaredNames}

\* a line "key = text" of [layout], or no such line
OptionalLine(key, texts) ==
  {<<>>} \cup {<<KeyEquals(key, t)>> : t \in texts}

\* the grid values written by hand: a number, or something else
GridTexts == {<<"2">>, <<"x">>}

\* the lines of the file
HandWritten(mode_line, cols_line, rows_line, declared, with_mapping) ==
  << <<"#", " ", "layout">>, <<"[", "layout", "]">> >>
  \o mode_line \o cols_line \o rows_line
  \o << <<>>, <<"[", "animations", "]">> >>
  \o animations_lines(declared, 1)
  \o (IF with_mapping THEN << <<"[", "frame_mapping", "]">> >> ELSE <<>>)

\* the modes a hand-written sidecar names
ModeTexts == {<<"vertical">>, <<"diagonal">>}

DecodeInit ==
  /\ EditorInit
  /\ AnalyzerIdle
  /\ CombinerInit
  /\ combined = NoImage
  /\ \E declared \in DeclaredBandLists, with_mapping \in BOOLEAN,
        mode_line \in OptionalLine("mode", ModeTexts),
        cols_line \in OptionalLine("grid_cols", GridTexts),
        rows_line \in OptionalLine("grid_rows", GridTexts) :
       /\ bands = declared
       /\ written = HandWritten(mode_line, cols_line, rows_line, declared,
                                with_mapping)

DecodeNext == editor_load_layout

SpecDecode == DecodeInit /\ [][DecodeNext]_vars

(***************************************************************************)
(* The sheet analyzer                                                      *)
(*                                                                         *)
(* detect_grid_layout collects candidate grids in a list, removes the      *)
(* duplicates through a set and sorts what is left by the number of        *)
(* frames, most first.  list(set(...)) lists the set in the order of its   *)
(* hash table, which the language leaves to the implementation; the sort   *)
(* is stable, so candidates with as many frames keep that order.  The      *)
(* order is an input of the call here.                                     *)
(***************************************************************************)
\* the longest side of the small images analysed
MaxSide == 8

\* the sides of the images analysed
Sides == 1..MaxSide \cup {32, 48, 64, 96, 128, 256, 512}

preferred_sizes == <<256, 128, 64, 96, 48, 32>>

max_frames == 32

\* range(1, 17)
MaxDetectSide == 16

\* the first loop: the grids of the preferred frame sizes
RECURSIVE preferred_layouts(_, _, _)
preferred_layouts(width, height, n) ==
  IF n > Len(preferred_sizes)
    THEN <<>>
    ELSE LET frame_size == preferred_sizes[n]
         IN  (IF width % frame_size = 0 /\ height % frame_size = 0
                THEN << <<width \div frame_size, height \div frame_size>> >>
                ELSE <<>>)
             \o preferred_layouts(width, height, n + 1)

\* the test of the second loop on a grid of more than max_frames frames
too_many_or_as_many(count) == count >= max_frames

too_many(count) == count > max_frames

\* the inner loop of the second loop: the grids of one number of rows
RECURSIVE layouts_of_rows(_, _, _, _)
layouts_of_rows(width, height, rows, cols) ==
  IF cols > MaxDetectSide
    THEN <<>>
    ELSE (IF too_many(rows * cols)
            THEN <<>>
            ELSE IF width % cols = 0 /\ height % rows = 0
                   THEN << <<cols, rows>> >>
                   ELSE <<>>)
         \o layouts_of_rows(width, height, rows, cols + 1)

\* the second loop: rows outside, cols inside
RECURSIVE exhaustive_layouts(_, _, _)
exhaustive_layouts(width, height, rows) ==
  IF rows > MaxDetectSide
    THEN <<>>
    ELSE layouts_of_rows(width, height, rows, 1)
           \o exhaustive_layouts(width, height, rows + 1)

\* set(layouts)
set(layouts) == {layouts[i] : i \in 1..Len(layouts)}

\* the orders a set is listed in here
SetOrders == {"ascending", "descending"}

Before(a, b, order) ==
  LET less(x, y) == x[1] < y[1] \/ (x[1] = y[1] /\ x[2] < y[2])
  IN  IF order = "ascending" THEN less(a, b) ELSE less(b, a)

\* list(a_set)
RECURSIVE list(_, _)
list(a_set, order) ==
  IF a_set = {}
    THEN <<>>
    ELSE LET first == CHOOSE a \in a_set :
                        \A b \in a_set \ {a} : Before(a, b, order)
         IN  <<first>> \o list(a_set \ {first}, order)

\* the key of the sort
total_frames(layout) == layout[1] * layout[2]

\* one element put in its place in a list sorted most frames first, behind
\* the elements of as many frames
RECURSIVE insert_by_frames(_, _)
insert_by_frames(layout, sorted_list) ==
  IF sorted_list = <<>>
    THEN <<layout>>
    ELSE IF total_frames(sorted_list[1]) >= total_frames(layout)
           THEN <<sorted_list[1]>>
                  \o insert_by_frames(layout, Tail(sorted_list))
           ELSE <<layout>> \o sorted_list

\* the same list sorted fewest frames first
RECURSIVE sort_fewest_first(_)
sort_fewest_first(unique_layouts) ==
  IF unique_layouts = <<>>
    THEN <<>>
    ELSE LET rest == sort_fewest_first(Tail(unique_layouts))
             head == unique_layouts[1]
             fewer == SelectSeq(rest, LAMBDA x :
                                  total_frames(x) <= total_frames(head))
             more == SelectSeq(rest, LAMBDA x :
                                 total_frames(x) > total_frames(head))
         IN  fewer \o <<head>> \o more

\* unique_layouts.sort(key=lambda x: x[0] * x[1], reverse=True)
RECURSIVE sort_most_first(_)
sort_most_first(unique_layouts) ==
  IF unique_layouts = <<>>
    THEN <<>>
    ELSE insert_by_frames(
           unique_layouts[Len(unique_layouts)],
           sort_most_first(SubSeq(unique_layouts, 1,
                                  Len(unique_layouts) - 1)))

detect_grid_layout(width, height, order) ==
  LET layouts == preferred_layouts(width, height, 1)
                   \o exhaustive_layouts(width, height, 1)
      unique_layouts == list(set(layouts), order)
  IN  sort_most_first(unique_layouts)

\* analyze_spritesheet: nothing without a file; the grids are detected
\* when the auto-detect box is ticked
analyze_spritesheet ==
  /\ input_image # NoImage
  /\ \E auto_detect \in BOOLEAN, order \in SetOrders :
       detected_layouts' =
         IF auto_detect
           THEN detect_grid_layout(input_image.width, input_image.height,
                                   order)
           ELSE detected_layouts
  /\ UNCHANGED <<input_image, editor_vars, codec_vars>>

\* a file of some size is chosen and not yet analysed
DetectInit ==
  /\ EditorInit
  /\ CodecIdle
  /\ input_image \in {[width |-> w, height |-> h] : w \in Sides, h \in Sides}
  /\ detected_layouts = <<>>

DetectNext == analyze_spritesheet

SpecDetect == DetectInit /\ [][DetectNext]_vars

(***************************************************************************)
(* The bands update_display draws                                          *)
(***************************************************************************)
\* a frame put in front of its group
prepend_to_group(groups, anim_name, frame) ==
  dict_set(groups, anim_name,
           <<frame>> \o (IF dict_has(groups, anim_name)
                           THEN dict_get(groups, anim_name) ELSE <<>>))

\* if anim_name not in groups: groups[anim_name] = []
\* groups[anim_name].append(frame)
append_to_group(groups, anim_name, frame) ==
  dict_set(groups, anim_name,
           Append(IF dict_has(groups, anim_name)
                    THEN dict_get(groups, anim_name) ELSE <<>>,
                  frame))

\* f"Row {frame.grid_y + 1}"
row_name(frame) == <<"Row", " ">> \o str(frame.grid_y + 1)

\* f"Col {frame.grid_x + 1}"
col_name(frame) == <<"Col", " ">> \o str(frame.grid_x + 1)

\* the loop of group_frames_by_animation_rows, from frame n on
RECURSIVE group_rows_from(_, _, _)
group_rows_from(frame_list, n, groups) ==
  IF n > Len(frame_list)
    THEN groups
    ELSE group_rows_from(frame_list, n + 1,
           append_to_group(groups, row_name(frame_list[n]), frame_list[n]))

group_frames_by_animation_rows(frame_list) ==
  group_rows_from(frame_list, 1, <<>>)

\* the loop of group_frames_by_animation_cols, from frame n on
RECURSIVE group_cols_from(_, _, _)
group_cols_from(frame_list, n, groups) ==
  IF n > Len(frame_list)
    THEN groups
    ELSE group_cols_from(frame_list, n + 1,
           append_to_group(groups, col_name(frame_list[n]), frame_list[n]))

group_frames_by_animation_cols(frame_list) ==
  group_cols_from(frame_list, 1, <<>>)

(***************************************************************************)
(* Properties                                                               *)
(***************************************************************************)
\* the frames cut from the sheet in row-major order, each at its rectangle
RowMajor(frame_list, sheet, cols, rows) ==
  LET fw == FloorDiv(sheet.w, cols)
      fh == FloorDiv(sheet.h, rows)
  IN /\ Len(frame_list) = cols * rows
     /\ \A i \in 1..Len(frame_list) :
          LET f == frame_list[i]
          IN /\ f.original_index = i - 1
             /\ f.grid_y = (i - 1) \div cols
             /\ f.grid_x = (i - 1) % cols
             /\ f.image.w = fw
             /\ f.image.h = fh
             /\ \A x \in 0..(fw - 1), y \in 0..(fh - 1) :
                  PixelAt(f.image, x, y)
                    = PixelAt(sheet, f.grid_x * fw + x, f.grid_y * fh + y)

\* C1: whenever extract_frames ran on a grid with cols >= 1 and rows >= 1,
\* the frame list holds cols*rows frames of size floor(W/cols) x
\* floor(H/rows) in row-major order: the frame at position i has
\* original_index i, grid_y = i // cols, grid_x = i % cols and the pixels of
\* its rectangle of the sheet.
C1_ExtractRowMajor ==
  (/\ last_call \in {"extract_frames", "extract_frames:raised"}
   /\ grid_cols >= 1
   /\ grid_rows >= 1)
  => RowMajor(frames, spritesheet, grid_cols, grid_rows)

\* the frame list is the one extract_frames built: nothing was deleted,
\* removed or moved, and the grid is the one it was cut with
Unedited ==
  /\ frames # <<>>
  /\ clear_all_selected(frames)
       = extract_frames(spritesheet, grid_cols, grid_rows)

\* C2: a sheet saved with no edits applied is cols*frame_width by
\* rows*frame_height, and each of its pixels is the pixel of the loaded
\* sheet at the same coordinates (written as RGBA: a pixel without alpha is
\* opaque).
C2_ComposeRoundTrip ==
  (last_call = "save_spritesheet" /\ Unedited) =>
    LET fw == FloorDiv(spritesheet.w, grid_cols)
        fh == FloorDiv(spritesheet.h, grid_rows)
    IN /\ disk.image.w = grid_cols * fw
       /\ disk.image.h = grid_rows * fh
       /\ Len(disk.image.px) = disk.image.w * disk.image.h
       /\ \A x \in 0..(grid_cols * fw - 1), y \in 0..(grid_rows * fh - 1) :
            PixelAt(disk.image, x, y) = ToRGBA(PixelAt(spritesheet, x, y))

\* an unedited sheet of several frames was saved, and the tiled region is
\* narrower than the sheet
C2_SavedUnedited ==
  /\ last_call = "save_spritesheet"
  /\ Unedited
  /\ Len(frames) >= 2
  /\ disk.image.w < spritesheet.w

\* the 0-based rank of v among the values of S
Rank(S, v) == Cardinality({u \in S : u < v})

\* the number of non-empty frames among the first i frames
KeptUpTo(frame_list, i) ==
  Cardinality({j \in 1..i : ~frame_list[j].is_empty})

\* the columns and the rows in which a non-empty frame sits
ColumnsInUse(frame_list) ==
  {frame_list[i].grid_x : i \in {j \in 1..Len(frame_list) :
                                   ~frame_list[j].is_empty}}

RowsInUse(frame_list) ==
  {frame_list[i].grid_y : i \in {j \in 1..Len(frame_list) :
                                   ~frame_list[j].is_empty}}

\* C3: a successful compact keeps exactly the non-empty frames, in their
\* order; each gets grid_x = the rank of its old column among the columns
\* in use and grid_y = the rank of its old row among the rows in use, and
\* the grid becomes (number of columns in use, number of rows in use).
C3_CompactRanks ==
  [][last_call' = "compact_grid" =>
       /\ Len(frames') = KeptUpTo(frames, Len(frames))
       /\ grid_cols' = Cardinality(ColumnsInUse(frames))
       /\ grid_rows' = Cardinality(RowsInUse(frames))
       /\ \A i \in 1..Len(frames) :
            ~frames[i].is_empty =>
              LET g == frames'[KeptUpTo(frames, i)]
              IN /\ g.image = frames[i].image
                 /\ g.original_index = frames[i].original_index
                 /\ ~g.is_empty
                 /\ g.grid_x = Rank(ColumnsInUse(frames), frames[i].grid_x)
                 /\ g.grid_y = Rank(RowsInUse(frames), frames[i].grid_y)]_vars

\* a compact closed a gap: the frame cut from column 2 sits in column 1
C3_GapClosed ==
  /\ last_call = "compact_grid"
  /\ grid_cols = 2
  /\ \E i \in 1..Len(frames) :
       frames[i].grid_x = 1 /\ frames[i].original_index = 2

\* C4: in every reachable state, a cleanup leaves exactly the non-empty
\* frames, in their order, each with its grid_x and grid_y, and with
\* original_index equal to its position in the resulting list.
C4_CleanupRenumbers ==
  frames # <<>> =>
    LET out == cleanup_frames(frames)
    IN /\ Len(out) = KeptUpTo(frames, Len(frames))
       /\ \A i \in 1..Len(frames) :
            ~frames[i].is_empty =>
              LET g == out[KeptUpTo(frames, i)]
              IN /\ g.image = frames[i].image
                 /\ g.grid_x = frames[i].grid_x
                 /\ g.grid_y = frames[i].grid_y
                 /\ g.original_index = KeptUpTo(frames, i) - 1

\* every pixel of the image is fully transparent
Transparent(image) ==
  /\ image.mode = "RGBA"
  /\ \A k \in 1..Len(image.px) : image.px[k] = <<0, 0>>

\* C5: delete_selected gives each selected frame a fully transparent image
\* of the same size and is_empty = TRUE; it keeps every frame's grid_x,
\* grid_y and original_index, the length and the order of the list and the
\* grid; an unselected frame keeps its image and its is_empty; a frame that
\* was deleted before keeps its image.
C5_DeleteEffect ==
  [][last_call' = "delete_selected" =>
       /\ Len(frames') = Len(frames)
       /\ grid_cols' = grid_cols
       /\ grid_rows' = grid_rows
       /\ \A i \in 1..Len(frames) :
            LET f == frames[i]
                g == frames'[i]
            IN /\ g.grid_x = f.grid_x
               /\ g.grid_y = f.grid_y
               /\ g.original_index = f.original_index
               /\ IF f.selected
                  THEN /\ g.image.w = f.image.w
                       /\ g.image.h = f.image.h
                       /\ Len(g.image.px) = f.image.w * f.image.h
                       /\ Transparent(g.image)
                       /\ g.is_empty
                  ELSE /\ g.image = f.image
                       /\ g.is_empty = f.is_empty
               /\ (f.selected /\ f.is_empty /\ Transparent(f.image))
                    => g.image = f.image]_vars

\* a delete blanked a frame and left another one alone
C5_FrameDeleted ==
  /\ last_call = "delete_selected"
  /\ \E i, j \in 1..Len(frames) :
       /\ frames[i].image.px # <<>>
       /\ Transparent(frames[i].image)
       /\ frames[i].is_empty
       /\ ~frames[j].is_empty

\* C6: for every band list whose bands have frame_count >= 1, the editor
\* reads back from the sidecar the combiner wrote the same bands in the same
\* order, each with its name, frame_count, start_frame and end_frame.
C6_BandsRoundTrip ==
  (/\ last_call = "load_layout_config"
   /\ \A b \in 1..Len(bands) : bands[b].frame_count >= 1)
  => /\ Len(animation_info) = Len(bands)
     /\ \A b \in 1..Len(bands) :
          LET got == animation_info[b]
          IN /\ dict_has(got, <<"name">>)
             /\ dict_get(got, <<"name">>) = bands[b].name
             /\ dict_has(got, <<"frame_count">>)
             /\ dict_get(got, <<"frame_count">>) = bands[b].frame_count
             /\ dict_has(got, <<"start_frame">>)
             /\ dict_get(got, <<"start_frame">>) = bands[b].start_frame
             /\ dict_has(got, <<"end_frame">>)
             /\ dict_get(got, <<"end_frame">>)
                  = bands[b].start_frame + bands[b].frame_count - 1

\* C7: the sidecar the editor saved, loaded again, gives the layout_mode,
\* the grid_cols and the grid_rows of the session that was saved.
C7_LayoutRoundTrip ==
  last_call = "save_spritesheet" =>
    LET loaded == load_layout_config(disk.layout, layout_fields)
    IN /\ loaded.ok
       /\ loaded.layout_mode = layout_mode
       /\ loaded.grid_cols = grid_cols
       /\ loaded.grid_rows = grid_rows

\* C8: in every reachable state every frame has 0 <= grid_x < grid_cols and
\* 0 <= grid_y < grid_rows.
C8_FramesInGrid ==
  \A i \in 1..Len(frames) :
    /\ 0 <= frames[i].grid_x
    /\ frames[i].grid_x < grid_cols
    /\ 0 <= frames[i].grid_y
    /\ frames[i].grid_y < grid_rows

\* no two frames of the list sit in the same cell
NoOverlap ==
  \A i, j \in 1..Len(frames) :
    i # j => \/ frames[i].grid_x # frames[j].grid_x
             \/ frames[i].grid_y # frames[j].grid_y

\* every cell of the grid holds exactly one frame
EveryCellOnce ==
  \A x \in 0..(grid_cols - 1), y \in 0..(grid_rows - 1) :
    Cardinality({i \in 1..Len(frames) :
                   frames[i].grid_x = x /\ frames[i].grid_y = y}) = 1

\* C9, as stated: after an extract, a delete, a cleanup or a compact that
\* leaves frames, the frames tile the grid exactly: no two frames share a cell and every cell
\* of [0,cols) x [0,rows) holds a frame.
C9_ExactTiling ==
  (/\ frames # <<>>
   /\ last_call \in {"extract_frames", "delete_selected",
                     "cleanup_empty_frames", "compact_grid"})
  => NoOverlap /\ EveryCellOnce

\* C9, amended: no two frames ever share a cell, and directly after a
\* successful extraction every cell of the grid holds exactly one frame.
C9_NoOverlapTiledWhenExtracted ==
  /\ NoOverlap
  /\ last_call = "extract_frames" => EveryCellOnce

\* a cleanup left a cell of the grid without a frame
C9_GapAfterCleanup ==
  /\ last_call = "cleanup_empty_frames"
  /\ frames # <<>>
  /\ ~EveryCellOnce

\* C10: in every reachable state no two frames of the list have the same
\* original_index.
C10_UniqueOriginalIndex ==
  \A i, j \in 1..Len(frames) :
    i # j => frames[i].original_index # frames[j].original_index

\* a cleanup renumbered a list of several frames
C10_Renumbered ==
  /\ last_call = "cleanup_empty_frames"
  /\ Len(frames) >= 2

\* C11: in every reachable state grid_cols >= 1 and grid_rows >= 1, whatever
\* was typed into the spinboxes and the dialogs and whatever grid a loaded
\* sidecar holds.
C11_GridPositive ==
  grid_cols >= 1 /\ grid_rows >= 1

\* C13: a compact never increases the grid: the grid_cols and the grid_rows
\* it leaves are at most those before the call.
C13_CompactNeverGrows ==
  [][last_call' = "compact_grid" =>
       /\ grid_cols' <= grid_cols
       /\ grid_rows' <= grid_rows]_vars

\* C14: a compact issued directly after a successful compact changes
\* nothing: it does not fail, and the frame list (with every frame's grid_x,
\* grid_y and original_index) and the grid it would assign are those of the
\* state.
C14_CompactTwice ==
  last_call = "compact_grid" =>
    /\ ~compact_fails(frames)
    /\ compacted(frames) = frames
    /\ Cardinality(active_cols(frames)) = grid_cols
    /\ Cardinality(active_rows(frames)) = grid_rows
    /\ update_display(compacted(frames)) = canvas

\* a compact moved a frame and left several frames in several columns
C14_CompactedSeveral ==
  /\ last_call = "compact_grid"
  /\ Len(frames) >= 2
  /\ grid_cols >= 2
  /\ \E i \in 1..Len(frames) : frames[i].original_index # frames[i].grid_x

\* C15: cleanup is idempotent: in every reachable state a second cleanup
\* leaves the frame list of the first (same frames, order, grid_x, grid_y
\* and original_index) and removes no frame; cleanup never assigns the grid.
C15_CleanupIdempotent ==
  LET once == cleanup_frames(frames)
  IN /\ cleanup_frames(once) = once
     /\ KeptUpTo(once, Len(once)) = Len(once)

\* a cleanup removed the first frames of the list and kept one, and a
\* second cleanup would leave the list as it is
C15_CleanupRemoves ==
  /\ last_call = "cleanup_empty_frames"
  /\ frames # <<>>
  /\ frames[1].grid_x >= 1
  /\ cleanup_frames(frames) = frames

\* the labels compact_grid leaves in last_call
CompactOutcomes ==
  {"compact_grid", "compact_grid:error", "compact_grid:returned"}

\* C12: a compact called in a state without a non-empty frame shows an
\* error and changes nothing: the frame list, every frame's grid_x and
\* grid_y, grid_cols and grid_rows stay as they were.
C12_CompactReportsError ==
  [][(/\ last_call' \in CompactOutcomes
      /\ KeptUpTo(frames, Len(frames)) = 0)
     => /\ last_call' = "compact_grid:error"
        /\ frames' = frames
        /\ grid_cols' = grid_cols
        /\ grid_rows' = grid_rows]_vars

\* the value of a key of the [layout] section of a sidecar, as text
LayoutValue(lines, key) ==
  dict_get(dict_get(read_sections(lines, 1, <<>>, <<>>), <<"layout">>), key)

\* the frame counts of the [animations] section of a sidecar, in file order
AnimationCounts(lines) ==
  LET declared == dict_get(read_sections(lines, 1, <<>>, <<>>),
                           <<"animations">>)
  IN [i \in 1..Len(declared) |-> int(declared[i].value)]

\* the grid of the [layout] section is the one the bands of the same file
\* give: max frame_count by number of bands in horizontal mode, swapped in
\* vertical mode
GridFromBands(lines) ==
  LET counts == AnimationCounts(lines)
      cols == int(LayoutValue(lines, <<"grid_cols">>))
      rows == int(LayoutValue(lines, <<"grid_rows">>))
  IN IF LayoutValue(lines, <<"mode">>) = <<"horizontal">>
     THEN cols = max(counts) /\ rows = Len(counts)
     ELSE cols = Len(counts) /\ rows = max(counts)

\* C16: the grid_cols and grid_rows the editor writes to [layout] are
\* recomputed from the bands it writes to the same file, for any session
\* with at least one frame.
C16_EditorGridFromBands ==
  last_call = "save_spritesheet" => GridFromBands(disk.layout)

\* C16, the combiner's half: the grid the combiner writes is recomputed
\* from the bands it writes (checked under SpecCodec).
C16_CombinerGridFromBands ==
  written # <<>> => GridFromBands(written)

\* the animations that have a file, and the b-th of them in the order of
\* the form
Selected == {n \in 1..Len(AnimationNames) : animations[n].file}

NthSelected(b) == CHOOSE n \in Selected : Rank(Selected, n) = b - 1

\* the frames an animation contributes: those asked for, as far as its grid
\* holds them
FramesOf(n) ==
  LET cells == animations[n].grid_cols * animations[n].grid_rows
  IN IF animations[n].frames <= cells THEN animations[n].frames ELSE cells

\* the most frames one of the selected animations contributes
MostFrames == CHOOSE m \in {FramesOf(n) : n \in Selected} :
                \A n \in Selected : FramesOf(n) <= m

\* the line of [animation_data] in a sidecar
DataStart(lines) ==
  CHOOSE i \in 1..Len(lines) : lines[i] = <<"[", "animation_data", "]">>

\* the number a field line of a block holds
FieldOf(line, key) ==
  IF startswith(line, <<" ", " ", key, ":", " ">>)
  THEN int(SubSeq(line, 6, Len(line)))
  ELSE -1000

\* the b-th block of [animation_data], as written: five lines
BlockOf(lines, b) ==
  LET at == DataStart(lines) + 5 * (b - 1)
  IN [name |-> lines[at + 1],
      start_frame |-> FieldOf(lines[at + 2], "start_frame"),
      frame_count |-> FieldOf(lines[at + 3], "frame_count"),
      end_frame |-> FieldOf(lines[at + 4], "end_frame"),
      blank |-> lines[at + 5]]

\* C17: the sidecar of the combiner holds one block per animation with a
\* file, in the order idle, run, front_attack, back_attack, dying; the first
\* block has start_frame 0, each later one the start_frame plus the
\* frame_count of the block before it, and every block has end_frame =
\* start_frame + frame_count - 1 and the number of frames extracted as its
\* frame_count.
C17_BandsContiguous ==
  written # <<>> =>
    LET count == Cardinality(Selected)
    IN /\ Len(bands) = count
       /\ written[DataStart(written) + 5 * count + 1]
            = <<"[", "frame_mapping", "]">>
       /\ \A b \in 1..count :
            LET block == BlockOf(written, b)
            IN /\ block.name = <<AnimationNames[NthSelected(b)], ":">>
               /\ block.frame_count = FramesOf(NthSelected(b))
               /\ block.start_frame =
                    IF b = 1 THEN 0
                    ELSE BlockOf(written, b - 1).start_frame
                         + BlockOf(written, b - 1).frame_count
               /\ block.end_frame
                    = block.start_frame + block.frame_count - 1
               /\ block.blank = <<>>
               /\ bands[b].start_frame = block.start_frame
               /\ bands[b].frame_count = block.frame_count

\* idle of 4 frames and run of 6 frames were combined: run is written with
\* start_frame 4, frame_count 6 and end_frame 9
C17_IdleFourRunSix ==
  /\ written # <<>>
  /\ Len(bands) = 2
  /\ BlockOf(written, 1) = [name |-> <<"idle", ":">>, start_frame |-> 0,
                            frame_count |-> 4, end_frame |-> 3,
                            blank |-> <<>>]
  /\ BlockOf(written, 2) = [name |-> <<"run", ":">>, start_frame |-> 4,
                            frame_count |-> 6, end_frame |-> 9,
                            blank |-> <<>>]

LayoutHas(lines, key) ==
  dict_has(dict_get(read_sections(lines, 1, <<>>, <<>>), <<"layout">>), key)

\* the key of [layout] is absent, or its value is not an integer
AbsentOrUnparseable(lines, key) ==
  LayoutHas(lines, key) => int_raises(LayoutValue(lines, key))

\* the value load_layout_config is to give a grid dimension: the integer
\* written, 4 when there is none
GridOrDefault(lines, key) ==
  IF AbsentOrUnparseable(lines, key) THEN 4 ELSE int(LayoutValue(lines, key))

\* the editor holds the declared bands: their names and frame counts, in
\* the order of the file
BandsApplied ==
  /\ Len(animation_info) = Len(bands)
  /\ \A b \in 1..Len(bands) :
       /\ dict_has(animation_info[b], <<"name">>)
       /\ dict_get(animation_info[b], <<"name">>) = bands[b].name
       /\ dict_has(animation_info[b], <<"frame_count">>)
       /\ dict_get(animation_info[b], <<"frame_count">>)
            = bands[b].frame_count

\* C19: reading a sidecar whose grid_cols or grid_rows is absent or is not
\* an integer succeeds; the dimension is 4, and the mode, the other
\* dimension and the bands of the file are applied.
C19_GridDefaultsToFour ==
  (/\ last_call \in LoadOutcomes
   /\ \/ AbsentOrUnparseable(written, <<"grid_cols">>)
      \/ AbsentOrUnparseable(written, <<"grid_rows">>))
  => /\ last_call = "load_layout_config"
     /\ grid_cols = GridOrDefault(written, <<"grid_cols">>)
     /\ grid_rows = GridOrDefault(written, <<"grid_rows">>)
     /\ layout_mode = IF LayoutHas(written, <<"mode">>)
                      THEN LayoutValue(written, <<"mode">>)
                      ELSE <<"horizontal">>
     /\ BandsApplied

\* C20: from a sidecar that declares its bands in [animations] only, the
\* editor reads the bands in declaration order, each with its frame_count
\* and with start_frame = the sum of the frame_counts declared before it,
\* with or without a [frame_mapping] section.
C20_LegacyStartFrames ==
  last_call = "load_layout_config" =>
    /\ BandsApplied
    /\ \A b \in 1..Len(bands) :
         /\ dict_has(animation_info[b], <<"start_frame">>)
         /\ dict_get(animation_info[b], <<"start_frame">>)
              = bands[b].start_frame

\* C21: detect_grid_layout lists its candidates by non-increasing
\* cols*rows: no candidate comes after one of strictly fewer frames; for a
\* 256x256 image (4,4) is listed, before every candidate of fewer than 16
\* frames.
C21_MostFramesFirst ==
  /\ \A i, j \in 1..Len(detected_layouts) :
       i < j => total_frames(detected_layouts[i])
                  >= total_frames(detected_layouts[j])
  /\ (input_image = [width |-> 256, height |-> 256]
        /\ detected_layouts # <<>>)
     => \E i \in 1..Len(detected_layouts) :
          /\ detected_layouts[i] = <<4, 4>>
          /\ \A j \in 1..Len(detected_layouts) :
               total_frames(detected_layouts[j]) < 16 => i < j

\* a 256x256 image was analysed: grids of more and of fewer than 16 frames
\* are among the candidates
C21_Detected256 ==
  /\ input_image = [width |-> 256, height |-> 256]
  /\ \E i, j \in 1..Len(detected_layouts) :
       /\ total_frames(detected_layouts[i]) > 16
       /\ total_frames(detected_layouts[j]) < 16

\* C22: for every image, the candidates detect_grid_layout returns are
\* exactly the grids of the preferred frame sizes that divide both sides
\* and the grids of at most 16 columns, 16 rows and 32 frames that divide
\* the image, none listed twice; every candidate divides the image evenly
\* and (1,1) is among them.
C22_CandidateSet ==
  detected_layouts # <<>>
  => LET width == input_image.width
         height == input_image.height
         returned == {detected_layouts[i] : i \in 1..Len(detected_layouts)}
     IN  /\ returned
              = {<<width \div s, height \div s>> :
                   s \in {t \in {256, 128, 64, 96, 48, 32} :
                            width % t = 0 /\ height % t = 0}}
                \cup {cr \in (1..16) \X (1..16) :
                        /\ cr[1] * cr[2] <= 32
                        /\ width % cr[1] = 0
                        /\ height % cr[2] = 0}
         /\ Cardinality(returned) = Len(detected_layouts)
         /\ \A cr \in returned : width % cr[1] = 0 /\ height % cr[2] = 0
         /\ <<1, 1>> \in returned

\* an image was analysed for which a preferred size gives a grid of more
\* than 32 frames and the second loop gives one of exactly 32
C22_DetectedBoth ==
  /\ \E i \in 1..Len(detected_layouts) :
       total_frames(detected_layouts[i]) > 32
  /\ \E i \in 1..Len(detected_layouts) :
       total_frames(detected_layouts[i]) = 32

\* C23: every frame extract_frames creates is empty exactly when it has an
\* alpha channel and fewer than 1% of its pixels have alpha above 10; this
\* covers every cell of the grid, also of a grid finer than the image,
\* whose frames have no pixels (and are not empty: 100*0 < 0 is false).
C23_EmptyIffUnderOnePercent ==
  (/\ last_call \in {"extract_frames", "extract_frames:raised"}
   /\ spritesheet # NoSheet
   /\ grid_cols >= 1
   /\ grid_rows >= 1)
  => /\ Len(frames) = grid_cols * grid_rows
     /\ \A i \in 1..Len(frames) :
          LET image == frames[i].image
              N == Len(image.px)
              k == Cardinality({p \in 1..N : image.px[p][2] > 10})
          IN  frames[i].is_empty = (image.mode = "RGBA" /\ 100 * k < N)

\* the groups share the frames of the list out among them: each name once,
\* each frame in one group
Partitions(groups, frame_list) ==
  /\ \A a, b \in 1..Len(groups) : groups[a].key = groups[b].key => a = b
  /\ \A i \in 1..Len(frame_list) :
       Cardinality({<<g, n>> \in (1..Len(groups)) \X (1..Len(frame_list)) :
                      /\ n <= Len(groups[g].value)
                      /\ groups[g].value[n] = frame_list[i]}) = 1
  /\ \A g \in 1..Len(groups) :
       /\ groups[g].value # <<>>
       /\ \A n \in 1..Len(groups[g].value) :
            \E i \in 1..Len(frame_list) : frame_list[i] = groups[g].value[n]

\* C24: the row bands (column bands) share the frames out by grid_y
\* (grid_x): every frame is in exactly one band, the one named "Row
\* grid_y+1" ("Col grid_x+1"), and inside a band the frames come by
\* ascending column (row), in every state extraction, deletion, cleanup and
\* compaction lead to.
C24_BandsPartitionInOrder ==
  LET by_row == group_frames_by_animation_rows(frames)
      by_col == group_frames_by_animation_cols(frames)
  IN  /\ Partitions(by_row, frames)
      /\ Partitions(by_col, frames)
      /\ \A g \in 1..Len(by_row) :
           LET band == by_row[g].value
           IN  /\ \A n \in 1..Len(band) :
                    by_row[g].key = <<"Row", " ">> \o str(band[n].grid_y + 1)
               /\ \A m, n \in 1..Len(band) :
                    m < n => band[m].grid_x < band[n].grid_x
      /\ \A g \in 1..Len(by_col) :
           LET band == by_col[g].value
           IN  /\ \A n \in 1..Len(band) :
                    by_col[g].key = <<"Col", " ">> \o str(band[n].grid_x + 1)
               /\ \A m, n \in 1..Len(band) :
                    m < n => band[m].grid_y < band[n].grid_y

\* frames were removed and the rest renumbered, and a band of several
\* frames is left
C24_SeveralInABand ==
  /\ last_call \in {"cleanup_empty_frames", "compact_grid"}
  /\ \E g \in 1..Len(group_frames_by_animation_rows(frames)) :
       Len(group_frames_by_animation_rows(frames)[g].value) >= 2

\* C25: a save writes the image and its sidecar or neither of them: no
\* image is on disk without the .layout file of the same save, and no save
\* whose sidecar failed ends as a successful save does.
C25_PairOrNothing ==
  /\ disk.image # NoSheet => disk.layout # <<>>
  /\ last_call \in ReportedSaved => disk.layout # <<>>

\* C26: a request for a grid larger than the image is rejected and changes
\* nothing: a step that cuts the sheet with more columns than its width or
\* more rows than its height leaves the frame list, grid_cols and grid_rows
\* as they were.
C26_OversizeGridRejected ==
  [][(/\ spritesheet' # NoSheet
      /\ last_call' \in {"extract_frames", "extract_frames:raised"}
      /\ (grid_cols' > spritesheet'.w \/ grid_rows' > spritesheet'.h))
     => (/\ frames' = frames
         /\ grid_cols' = grid_cols
         /\ grid_rows' = grid_rows)]_vars

\* C27: a load that fails leaves the state in memory as it was: when
\* load_layout_config returns False, layout_mode, grid_cols, grid_rows and
\* animation_info are what they were before the call.
C27_FailedDecodeChangesNothing ==
  [][last_call' = "load_layout_config:failed"
     => UNCHANGED <<layout_mode, grid_cols, grid_rows, animation_info>>]_vars

\* C28: in every state extraction, deletion, cleanup and compaction lead
\* to, the original_index of each frame is its position in the list
\* (counted from 0), so that frames[original_index] is that frame and no
\* original_index lies past the end of the list.
C28_IndexIsPosition ==
  \A i \in 1..Len(frames) :
    /\ frames[i].original_index = i - 1
    /\ frames[i].original_index < Len(frames)

\* C29: in every state of the editor layout_mode is "horizontal" or
\* "vertical", whatever mode a loaded sidecar names.
C29_LayoutModeKnown ==
  layout_mode \in {<<"horizontal">>, <<"vertical">>}

\* C30: the sheet the combiner wrote, cut by the editor with the grid of
\* the sidecar, has the i-th frame of every band at the index the sidecar
\* gives it: for a band of start_frame s and frame_count n and every i < n,
\* the frame of original_index s+i is that frame, in both layout modes and
\* for bands of unequal length.
C30_BandIndexAddressesFrame ==
  written # <<>> =>
    LET cut == extract_frames(
                 combined_cells(combiner_layout, bands),
                 int(LayoutValue(written, <<"grid_cols">>)),
                 int(LayoutValue(written, <<"grid_rows">>)))
    IN  \A b \in 1..Len(bands) :
          \A i \in 0..(bands[b].frame_count - 1) :
            \E f \in 1..Len(cut) :
              /\ cut[f].original_index = bands[b].start_frame + i
              /\ cut[f].image = FrameCell(bands[b].start_frame + i)

====
